---------------------------- MODULE Spec2Model ----------------------------
(***************************************************************************)
(* Model of three ZenML integration adapters:                              *)
(*   - HuggingFaceModelDeployer  (huggingface_model_deployer.py)           *)
(*   - XgboostBoosterMaterializer (xgboost_booster_materializer.py)        *)
(*   - TFRecordsDatasource        (tfrecords_datasource.py)                *)
(* Strings are sequences of one-character strings, so that prefix tests,   *)
(* slices and concatenations are computed as the Python code computes them.*)
(***************************************************************************)
EXTENDS Integers, Sequences, FiniteSets, TLC

(***************************************************************************)
(* Bounds of the model.                                                    *)
(***************************************************************************)
\* lifecycle operations begun in one run of the deployer
MaxOps == 2
\* lifecycle operations begun in one run of the interleaved deployer
MaxConcOps == 2
\* repeated applications of modify_endpoint_name
MaxApply == 3

(***************************************************************************)
(* Python string helpers.                                                  *)
(***************************************************************************)
\* s.startswith(p)
StartsWith(s, p) ==
    /\ Len(s) >= Len(p)
    /\ SubSeq(s, 1, Len(p)) = p

\* s[:n]
Slice(s, n) == SubSeq(s, 1, IF Len(s) < n THEN Len(s) ELSE n)

\* s[i:j] with 0 <= i <= j <= len(s)
SliceFrom(s, i, j) == SubSeq(s, i + 1, j)

(***************************************************************************)
(* uuid.UUID and str(UUID).  A UUID is its 128-bit integer, held here as   *)
(* its 32 nibbles, most significant first; str() prints them as lowercase  *)
(* hexadecimal digits in groups of 8-4-4-4-12 joined by "-".               *)
(***************************************************************************)
HexDigits ==
    <<"0", "1", "2", "3", "4", "5", "6", "7",
      "8", "9", "a", "b", "c", "d", "e", "f">>

\* '%032x' % uuid.int
UuidHex(u) == [i \in 1..32 |-> HexDigits[u[i] + 1]]

\* str(uuid)
UuidStr(u) ==
    LET hex == UuidHex(u)
    IN  SliceFrom(hex, 0, 8) \o <<"-">> \o SliceFrom(hex, 8, 12) \o <<"-">>
        \o SliceFrom(hex, 12, 16) \o <<"-">> \o SliceFrom(hex, 16, 20)
        \o <<"-">> \o SliceFrom(hex, 20, 32)

\* 123e4567-e89b-12d3-a456-426614174000
UuidA ==
    <<1, 2, 3, 14, 4, 5, 6, 7, 14, 8, 9, 11, 1, 2, 13, 3,
      10, 4, 5, 6, 4, 2, 6, 6, 1, 4, 1, 7, 4, 0, 0, 0>>

\* 123e4567-e89b-12d3-a456-426614174001: another model, same leading digits
UuidB == [UuidA EXCEPT ![32] = 1]

\* 00c0ffee-0000-4000-8000-00000000beef
UuidC ==
    <<0, 0, 12, 0, 15, 15, 14, 14, 0, 0, 0, 0, 4, 0, 0, 0,
      8, 0, 0, 0, 0, 0, 0, 0, 0, 0, 0, 0, 11, 14, 14, 15>>

UUIDs == {UuidA, UuidB, UuidC}

(***************************************************************************)
(* Constants of huggingface_model_deployer.py.                             *)
(***************************************************************************)
ZENM_ENDPOINT_PREFIX == <<"z", "e", "n", "m", "l", "-">>

UUID_SLICE_LENGTH == 8

\* the original endpoint names a config may carry
EndpointNames ==
    { <<"a">>,
      <<"z", "e", "n", "m", "l">>,
      <<"z", "e", "n", "m", "l", "-", "a">> }

Threads == {1, 2}
Configs == {"cfg1", "cfg2"}
Timeouts == {0, 300}

Absent == "<absent>"
Stale == "<stale>"

\* self.config.token and self.config.namespace of the deployer a thread uses
ConfigToken(t) == IF t = 1 THEN "token-1" ELSE "token-2"
ConfigNamespace(t) == IF t = 1 THEN "namespace-1" ELSE "namespace-2"

VARIABLES
    env,        \* os.environ restricted to HF_TOKEN and HF_NAMESPACE
    pc,         \* per thread: the steps its running operation has still to take
    op,         \* per thread: the running operation and its arguments
    result,     \* per thread: how its last operation ended
    trace,      \* per thread: the calls its running (or last) operation made
    seen,       \* per thread: os.environ as its last remote call found it
    cfgName,    \* config.endpoint_name of each service config object
    artifacts,  \* the saved service artifacts, in the order saved
    remote,     \* state of the remote endpoint of each saved service
    nOps,       \* operations begun
    \* XgboostBoosterMaterializer
    store,      \* the artifact store: path -> content of the file there
    local,      \* the local temporary files and directories: path -> content
    bpc,        \* the steps the running load/save has still to take
    bop,        \* the running load/save, its arguments and local variables
    bres,       \* how the last load/save ended, with what it returned or raised
    bcalls,     \* the calls the running (or last) load/save made
    saved,      \* per artifact URI: the model last saved there (history)
    bOps,       \* loads and saves begun
    \* TFRecordsDatasource
    fs,         \* the file system: the set of files, each a path and its data
    cwd,        \* the working directory of the process
    ds,         \* the datasource object: its path and schema
    processed   \* the process() calls made so far, each with what it found

dvars == <<env, pc, op, result, trace, seen, cfgName, artifacts, remote, nOps>>

bvars == <<store, local, bpc, bop, bres, bcalls, saved, bOps>>

fvars == <<fs, cwd, ds, processed>>

vars == <<dvars, bvars, fvars>>

NoOp == [kind |-> "none"]

(***************************************************************************)
(* HuggingFaceModelDeployer.  Every method is the sequence of steps it     *)
(* takes; a thread runs the steps of its operation one at a time.          *)
(***************************************************************************)
\* variant: the variables are set and never removed
prepare_environment_variable_nopop(set) ==
    IF set THEN <<"set_token", "set_namespace">> ELSE <<>>

\* variant: the flag is read the wrong way round
prepare_environment_variable_swapped(set) ==
    IF set THEN <<"pop_token", "pop_namespace">>
    ELSE <<"set_token", "set_namespace">>

\* prepare_environment_variable(set): the statements it runs
prepare_environment_variable(set) ==
    IF set THEN <<"set_token", "set_namespace">>
    ELSE <<"pop_token", "pop_namespace">>

\* variant: the prefix is added without the startswith test
modify_endpoint_name_always_prefix(endpoint_name, artifact_version) ==
    ZENM_ENDPOINT_PREFIX \o endpoint_name \o artifact_version

modify_endpoint_name(endpoint_name, artifact_version) ==
    LET prefixed ==
            IF ~StartsWith(endpoint_name, ZENM_ENDPOINT_PREFIX)
            THEN ZENM_ENDPOINT_PREFIX \o endpoint_name
            ELSE endpoint_name
    IN  prefixed \o artifact_version

\* artifact_version = str(id)[:UUID_SLICE_LENGTH]
ArtifactVersion(id) == Slice(UuidStr(id), UUID_SLICE_LENGTH)

\* variant: the endpoint is started before the service is saved
create_new_service_start_first ==
    <<"start", "rename", "save_artifact", "log_metadata">>

create_new_service ==
    <<"rename", "save_artifact", "log_metadata", "start">>

clean_up_existing_service ==
    prepare_environment_variable(TRUE) \o <<"stop">>
    \o prepare_environment_variable(FALSE)

perform_deploy_model ==
    prepare_environment_variable(TRUE) \o create_new_service
    \o prepare_environment_variable(FALSE) \o <<"return">>

perform_stop_model ==
    prepare_environment_variable(TRUE) \o <<"stop">>
    \o prepare_environment_variable(FALSE) \o <<"return">>

perform_start_model ==
    prepare_environment_variable(TRUE) \o <<"start">>
    \o prepare_environment_variable(FALSE) \o <<"return">>

perform_delete_model ==
    prepare_environment_variable(TRUE) \o clean_up_existing_service
    \o prepare_environment_variable(FALSE) \o <<"return">>

Idle(t) == pc[t] = <<>>

AtStep(t, s) == pc[t] # <<>> /\ Head(pc[t]) = s

Advance(t) == pc' = [pc EXCEPT ![t] = Tail(@)]

\* an exception leaves the operation: nothing of it runs any more
Raise(t) ==
    /\ pc' = [pc EXCEPT ![t] = <<>>]
    /\ result' = [result EXCEPT ![t] = "raised"]

EnvVars == {"HF_TOKEN", "HF_NAMESPACE"}

\* the environment a thread's deployer sets up
Credentials(t) ==
    [v \in EnvVars |->
        IF v = "HF_TOKEN" THEN ConfigToken(t) ELSE ConfigNamespace(t)]

NoEnv == [v \in EnvVars |-> Absent]

Begin(t, program, call) ==
    /\ Idle(t)
    /\ pc' = [pc EXCEPT ![t] = program]
    /\ op' = [op EXCEPT ![t] = call]
    /\ result' = [result EXCEPT ![t] = "none"]
    /\ trace' = [trace EXCEPT ![t] = <<>>]
    /\ seen' = [seen EXCEPT ![t] = <<>>]
    /\ nOps' = nOps + 1
    /\ UNCHANGED <<env, cfgName, artifacts, remote>>
    /\ UNCHANGED <<bvars, fvars>>

\* deployer.perform_deploy_model(id, config, timeout)
CallDeploy(t, ids, cfgs, timeouts) ==
    \E id \in ids, cfg \in cfgs, timeout \in timeouts :
        Begin(t, perform_deploy_model,
              [kind |-> "deploy", id |-> id, cfg |-> cfg,
               timeout |-> timeout, svc |-> 0, orig |-> <<>>])

\* deployer.perform_stop_model(service, timeout, force)
CallStop(t, timeouts) ==
    \E svc \in 1..Len(artifacts), timeout \in timeouts :
        Begin(t, perform_stop_model,
              [kind |-> "stop", svc |-> svc, timeout |-> timeout])

\* deployer.perform_start_model(service, timeout)
CallStart(t, timeouts) ==
    \E svc \in 1..Len(artifacts), timeout \in timeouts :
        Begin(t, perform_start_model,
              [kind |-> "start", svc |-> svc, timeout |-> timeout])

\* deployer.perform_delete_model(service, timeout, force)
CallDelete(t, timeouts) ==
    \E svc \in 1..Len(artifacts), timeout \in timeouts :
        Begin(t, perform_delete_model,
              [kind |-> "delete", svc |-> svc, timeout |-> timeout])

\* os.environ["HF_TOKEN"] = self.config.token
SetToken(t) ==
    /\ AtStep(t, "set_token")
    /\ env' = [env EXCEPT !["HF_TOKEN"] = ConfigToken(t)]
    /\ Advance(t)
    /\ UNCHANGED <<op, result, trace, seen, cfgName, artifacts, remote, nOps>>
    /\ UNCHANGED <<bvars, fvars>>

\* os.environ["HF_NAMESPACE"] = self.config.namespace
SetNamespace(t) ==
    /\ AtStep(t, "set_namespace")
    /\ env' = [env EXCEPT !["HF_NAMESPACE"] = ConfigNamespace(t)]
    /\ Advance(t)
    /\ UNCHANGED <<op, result, trace, seen, cfgName, artifacts, remote, nOps>>
    /\ UNCHANGED <<bvars, fvars>>

\* os.environ.pop("HF_TOKEN", None)
PopToken(t) ==
    /\ AtStep(t, "pop_token")
    /\ env' = [env EXCEPT !["HF_TOKEN"] = Absent]
    /\ Advance(t)
    /\ UNCHANGED <<op, result, trace, seen, cfgName, artifacts, remote, nOps>>
    /\ UNCHANGED <<bvars, fvars>>

\* os.environ.pop("HF_NAMESPACE", None)
PopNamespace(t) ==
    /\ AtStep(t, "pop_namespace")
    /\ env' = [env EXCEPT !["HF_NAMESPACE"] = Absent]
    /\ Advance(t)
    /\ UNCHANGED <<op, result, trace, seen, cfgName, artifacts, remote, nOps>>
    /\ UNCHANGED <<bvars, fvars>>

\* zenml.artifacts.utils.save_artifact(service, name, version=...): the
\* service is kept as an artifact of that version
save_artifact(saved_so_far, service) == Append(saved_so_far, service)

\* zenml.artifacts.utils.log_artifact_metadata(...): the metadata is attached
\* to the artifact just saved
log_artifact_metadata(saved_so_far, svc, metadata) ==
    [saved_so_far EXCEPT ![svc].metadata = <<metadata>>]

\* HuggingFaceDeploymentService(uuid=id, config=config).config: the service
\* keeps the caller's config object, so a change of service.config is a
\* change of that object
ServiceConfig(config) == config

\* service = HuggingFaceDeploymentService(uuid=id, config=config);
\* service.config.endpoint_name = self.modify_endpoint_name(...)
Rename(t) ==
    /\ AtStep(t, "rename")
    /\ LET cfg == ServiceConfig(op[t].cfg)
           artifact_version == ArtifactVersion(op[t].id)
       IN  /\ cfgName' = [cfgName EXCEPT ![cfg] =
                            modify_endpoint_name(@, artifact_version)]
           /\ op' = [op EXCEPT ![t].orig = cfgName[cfg]]
           /\ trace' = [trace EXCEPT ![t] = Append(@, [ev |-> "rename"])]
    /\ Advance(t)
    /\ UNCHANGED <<env, result, seen, artifacts, remote, nOps>>
    /\ UNCHANGED <<bvars, fvars>>

\* save_artifact(service, HUGGINGFACE_SERVICE_ARTIFACT, version=artifact_version)
SaveArtifact(t) ==
    /\ AtStep(t, "save_artifact")
    /\ LET artifact_version == ArtifactVersion(op[t].id)
           service == [uuid |-> op[t].id,
                       cfg |-> op[t].cfg,
                       endpoint_name |-> cfgName[op[t].cfg],
                       orig |-> op[t].orig,
                       version |-> artifact_version,
                       metadata |-> <<>>]
       IN  /\ artifacts' = save_artifact(artifacts, service)
           /\ remote' = Append(remote, "created")
           /\ op' = [op EXCEPT ![t].svc = Len(artifacts) + 1]
           /\ trace' = [trace EXCEPT ![t] =
                          Append(@, [ev |-> "save_artifact",
                                     version |-> artifact_version,
                                     endpoint_name |-> cfgName[op[t].cfg]])]
    /\ Advance(t)
    /\ UNCHANGED <<env, result, seen, cfgName, nOps>>
    /\ UNCHANGED <<bvars, fvars>>

\* service_metadata = service.dict(); uuid as str; log_artifact_metadata(...)
LogMetadata(t) ==
    /\ AtStep(t, "log_metadata")
    /\ LET service_metadata == [uuid |-> UuidStr(op[t].id),
                                endpoint_name |-> cfgName[op[t].cfg]]
       IN  /\ op[t].svc \in 1..Len(artifacts)
           /\ artifacts' = log_artifact_metadata(artifacts, op[t].svc,
                                                  service_metadata)
           /\ trace' = [trace EXCEPT ![t] =
                          Append(@, [ev |-> "log_metadata",
                                     version |-> ArtifactVersion(op[t].id)])]
    /\ Advance(t)
    /\ UNCHANGED <<env, op, result, seen, cfgName, remote, nOps>>
    /\ UNCHANGED <<bvars, fvars>>

\* service.start(timeout=timeout): the remote call, which succeeds or raises
RemoteStart(t) ==
    /\ AtStep(t, "start")
    /\ seen' = [seen EXCEPT ![t] = Append(@, env)]
    /\ \E ok \in BOOLEAN :
        /\ trace' = [trace EXCEPT ![t] =
                       Append(@, [ev |-> "start",
                                  timeout |-> op[t].timeout, ok |-> ok])]
        /\ IF ok
           THEN /\ Advance(t)
                /\ remote' = IF op[t].svc \in 1..Len(remote)
                             THEN [remote EXCEPT ![op[t].svc] = "running"]
                             ELSE remote
                /\ UNCHANGED result
           ELSE /\ Raise(t)
                /\ UNCHANGED remote
    /\ UNCHANGED <<env, op, cfgName, artifacts, nOps>>
    /\ UNCHANGED <<bvars, fvars>>

\* service.stop(timeout=timeout, force=force): succeeds or raises
RemoteStop(t) ==
    /\ AtStep(t, "stop")
    /\ seen' = [seen EXCEPT ![t] = Append(@, env)]
    /\ \E ok \in BOOLEAN :
        /\ trace' = [trace EXCEPT ![t] =
                       Append(@, [ev |-> "stop",
                                  timeout |-> op[t].timeout, ok |-> ok])]
        /\ IF ok
           THEN /\ Advance(t)
                /\ remote' = [remote EXCEPT ![op[t].svc] = "stopped"]
                /\ UNCHANGED result
           ELSE /\ Raise(t)
                /\ UNCHANGED remote
    /\ UNCHANGED <<env, op, cfgName, artifacts, nOps>>
    /\ UNCHANGED <<bvars, fvars>>

\* return service
Return(t) ==
    /\ AtStep(t, "return")
    /\ pc' = [pc EXCEPT ![t] = <<>>]
    /\ result' = [result EXCEPT ![t] = "returned"]
    /\ UNCHANGED <<env, op, trace, seen, cfgName, artifacts, remote, nOps>>
    /\ UNCHANGED <<bvars, fvars>>

Step(t) ==
    \/ SetToken(t)
    \/ SetNamespace(t)
    \/ PopToken(t)
    \/ PopNamespace(t)
    \/ Rename(t)
    \/ SaveArtifact(t)
    \/ LogMetadata(t)
    \/ RemoteStart(t)
    \/ RemoteStop(t)
    \/ Return(t)

(***************************************************************************)
(* XgboostBoosterMaterializer.  A path is the sequence of its components.  *)
(***************************************************************************)
DEFAULT_FILENAME == "model.json"

\* loads and saves in one run
MaxBoosterOps == 2

\* os.path.join(directory, name)
PathJoin(directory, name) == directory \o <<name>>

NoFile == <<"<no file>">>

\* an xgboost.Booster, reduced to the list of its tree weights
Boosters == {<<>>, <<1>>, <<2, 1>>}

Digits == <<"0", "1", "2", "3", "4", "5", "6", "7", "8", "9">>

RECURSIVE WeightsToJson(_)
WeightsToJson(w) ==
    IF w = <<>> THEN <<>>
    ELSE <<Digits[Head(w) + 1]>>
         \o (IF Len(w) > 1 THEN <<",">> ELSE <<>>)
         \o WeightsToJson(Tail(w))

\* what booster.save_model(path) writes: the JSON text of the model
SaveModelJson(booster) == <<"[">> \o WeightsToJson(booster) \o <<"]">>

IsDigit(c) == \E d \in 1..10 : Digits[d] = c

DigitValue(c) == (CHOOSE d \in 1..10 : Digits[d] = c) - 1

\* whether booster.load_model(path) accepts the text: digits separated by
\* commas between brackets
WellFormedJson(text) ==
    /\ Len(text) >= 2
    /\ text[1] = "["
    /\ text[Len(text)] = "]"
    /\ Len(text) > 2 => Len(text) % 2 = 1
    /\ \A i \in 2..(Len(text) - 1) :
          IF i % 2 = 0 THEN IsDigit(text[i]) ELSE text[i] = ","

\* what booster.load_model(path) reads from a well-formed text
LoadModelJson(text) ==
    [i \in 1..((Len(text) - 1) \div 2) |-> DigitValue(text[2 * i])]

ArtifactUris == {<<"store", "art1">>, <<"store", "art2">>}

OtherFilename == "model.bin"

StorePaths ==
    {PathJoin(u, f) : u \in ArtifactUris, f \in {DEFAULT_FILENAME, OtherFilename}}

Corrupt == <<"[", "x">>

\* zenml.io.fileio.copy(src, dst): what dst holds after a copy of a file
\* holding content
fileio_copy(content) == content

\* variant: load looks for another file name than save writes
load_filepath_other_name(uri) == PathJoin(uri, OtherFilename)

\* filepath = os.path.join(self.uri, DEFAULT_FILENAME) of load
load_filepath(uri) == PathJoin(uri, DEFAULT_FILENAME)

\* filepath = os.path.join(self.uri, DEFAULT_FILENAME) of save
save_filepath(uri) == PathJoin(uri, DEFAULT_FILENAME)

\* the steps that leave a with block: TemporaryDirectory removes the
\* directory, NamedTemporaryFile closes and deletes the file
ExitSteps == {"rmtree", "close_temp_file"}

\* variant: the temporary resource is released after the body, not by a
\* with block, so an exception skips the release
with_exit_on_raise_skipped(rest) == <<"reraise">>

\* an exception inside a with block runs the exits of the blocks it leaves
\* and goes on to the caller

with_exit_on_raise(rest) ==
    SelectSeq(rest, LAMBDA step : step \in ExitSteps) \o <<"reraise">>

load ==
    <<"mkdtemp", "copy_from_store", "load_model", "rmtree", "return">>

save ==
    <<"named_temporary_file", "save_model", "copy_to_store",
      "close_temp_file", "return">>

BIdle == bpc = <<>>

BAtStep(s) == bpc # <<>> /\ Head(bpc) = s

\* the local paths at or below path p
Below(p) ==
    {q \in DOMAIN local : Len(q) >= Len(p) /\ SubSeq(q, 1, Len(p)) = p}

Remove(paths) == [q \in (DOMAIN local) \ paths |-> local[q]]

Put(path, content) ==
    [q \in (DOMAIN local) \cup {path} |->
        IF q = path THEN content ELSE local[q]]

\* the name tempfile gives the n-th temporary file or directory
TempName(prefix, n, suffix) == <<"tmp", prefix, n, suffix>>

BRaise(error) ==
    /\ bpc' = with_exit_on_raise(Tail(bpc))
    /\ bop' = [bop EXCEPT !.error = error]

BCalled(call, outcome) ==
    bcalls' = Append(bcalls, [call |-> call, outcome |-> outcome])

\* materializer.load(data_type) on a materializer of the given URI
CallLoad ==
    /\ BIdle
    /\ bOps < MaxBoosterOps
    /\ \E uri \in ArtifactUris :
        bop' = [kind |-> "load", uri |-> uri, booster |-> <<>>,
                temp |-> <<>>, error |-> "none", store0 |-> store]
    /\ bpc' = load
    /\ bres' = [how |-> "none"]
    /\ bcalls' = <<>>
    /\ bOps' = bOps + 1
    /\ UNCHANGED <<store, local, saved>>
    /\ UNCHANGED <<dvars, fvars>>

\* materializer.save(booster) on a materializer of the given URI
CallSave ==
    /\ BIdle
    /\ bOps < MaxBoosterOps
    /\ \E uri \in ArtifactUris, booster \in Boosters :
        bop' = [kind |-> "save", uri |-> uri, booster |-> booster,
                temp |-> <<>>, error |-> "none", store0 |-> store]
    /\ bpc' = save
    /\ bres' = [how |-> "none"]
    /\ bcalls' = <<>>
    /\ bOps' = bOps + 1
    /\ UNCHANGED <<store, local, saved>>
    /\ UNCHANGED <<dvars, fvars>>

\* with tempfile.TemporaryDirectory(prefix="zenml-temp-") as temp_dir
MkDTemp ==
    /\ BAtStep("mkdtemp")
    /\ LET temp_dir == TempName("zenml-temp-", bOps, "")
       IN  /\ local' = Put(temp_dir, <<"<dir>">>)
           /\ bop' = [bop EXCEPT !.temp = temp_dir]
    /\ bpc' = Tail(bpc)
    /\ UNCHANGED <<store, bres, bcalls, saved, bOps>>
    /\ UNCHANGED <<dvars, fvars>>

\* fileio.copy(filepath, temp_file): copies, or raises
CopyFromStore ==
    /\ BAtStep("copy_from_store")
    /\ LET filepath == load_filepath(bop.uri)
           temp_file == PathJoin(bop.temp, DEFAULT_FILENAME)
       IN  \E ok \in BOOLEAN :
            IF ok /\ store[filepath] # NoFile
            THEN /\ local' = Put(temp_file, fileio_copy(store[filepath]))
                 /\ bpc' = Tail(bpc)
                 /\ BCalled("fileio.copy", "ok")
                 /\ UNCHANGED bop
            ELSE /\ BRaise(IF store[filepath] = NoFile
                           THEN "FileNotFoundError" ELSE "OSError")
                 /\ BCalled("fileio.copy", "raised")
                 /\ UNCHANGED local
    /\ UNCHANGED <<store, bres, saved, bOps>>
    /\ UNCHANGED <<dvars, fvars>>

\* booster = xgb.Booster(); booster.load_model(temp_file)
LoadModel ==
    /\ BAtStep("load_model")
    /\ LET temp_file == PathJoin(bop.temp, DEFAULT_FILENAME)
       IN  IF WellFormedJson(local[temp_file])
           THEN /\ bop' = [bop EXCEPT !.booster = LoadModelJson(local[temp_file])]
                /\ bpc' = Tail(bpc)
                /\ BCalled("load_model", "ok")
           ELSE /\ BRaise("XGBoostError")
                /\ BCalled("load_model", "raised")
    /\ UNCHANGED <<store, local, bres, saved, bOps>>
    /\ UNCHANGED <<dvars, fvars>>

\* leaving the TemporaryDirectory block: the directory and all in it go
RmTree ==
    /\ BAtStep("rmtree")
    /\ local' = Remove(Below(bop.temp))
    /\ bpc' = Tail(bpc)
    /\ UNCHANGED <<store, bop, bres, bcalls, saved, bOps>>
    /\ UNCHANGED <<dvars, fvars>>

\* with tempfile.NamedTemporaryFile(mode="w", suffix=".json") as f
NamedTemporaryFile ==
    /\ BAtStep("named_temporary_file")
    /\ LET name == TempName("tmp", bOps, ".json")
       IN  /\ local' = Put(name, <<>>)
           /\ bop' = [bop EXCEPT !.temp = name]
    /\ bpc' = Tail(bpc)
    /\ UNCHANGED <<store, bres, bcalls, saved, bOps>>
    /\ UNCHANGED <<dvars, fvars>>

\* booster.save_model(f.name): writes the JSON text, or raises
SaveModel ==
    /\ BAtStep("save_model")
    /\ \E ok \in BOOLEAN :
        IF ok
        THEN /\ local' = Put(bop.temp, SaveModelJson(bop.booster))
             /\ bpc' = Tail(bpc)
             /\ BCalled("save_model", "ok")
             /\ UNCHANGED bop
        ELSE /\ BRaise("XGBoostError")
             /\ BCalled("save_model", "raised")
             /\ UNCHANGED local
    /\ UNCHANGED <<store, bres, saved, bOps>>
    /\ UNCHANGED <<dvars, fvars>>

\* fileio.copy(f.name, filepath): copies, or raises
CopyToStore ==
    /\ BAtStep("copy_to_store")
    /\ LET filepath == save_filepath(bop.uri)
       IN  \E ok \in BOOLEAN :
            IF ok
            THEN /\ store' = [store EXCEPT ![filepath] =
                                   fileio_copy(local[bop.temp])]
                 /\ saved' = [saved EXCEPT ![bop.uri] = <<bop.booster>>]
                 /\ bpc' = Tail(bpc)
                 /\ BCalled("fileio.copy", "ok")
                 /\ UNCHANGED bop
            ELSE /\ BRaise("OSError")
                 /\ BCalled("fileio.copy", "raised")
                 /\ UNCHANGED <<store, saved>>
    /\ UNCHANGED <<local, bres, bOps>>
    /\ UNCHANGED <<dvars, fvars>>

\* leaving the NamedTemporaryFile block: the file is closed and deleted
CloseTempFile ==
    /\ BAtStep("close_temp_file")
    /\ local' = Remove({bop.temp})
    /\ bpc' = Tail(bpc)
    /\ UNCHANGED <<store, bop, bres, bcalls, saved, bOps>>
    /\ UNCHANGED <<dvars, fvars>>

\* return booster (load), or the end of save
BReturn ==
    /\ BAtStep("return")
    /\ bres' = [how |-> "returned",
                value |-> IF bop.kind = "load" THEN <<bop.booster>> ELSE <<>>]
    /\ bpc' = <<>>
    /\ UNCHANGED <<store, local, bop, bcalls, saved, bOps>>
    /\ UNCHANGED <<dvars, fvars>>

\* the exception goes on to the caller of load/save
BReraise ==
    /\ BAtStep("reraise")
    /\ bres' = [how |-> "raised", value |-> bop.error]
    /\ bpc' = <<>>
    /\ UNCHANGED <<store, local, bop, bcalls, saved, bOps>>
    /\ UNCHANGED <<dvars, fvars>>

NoLocalFiles == [q \in {} |-> <<>>]

BoosterRest ==
    /\ local = NoLocalFiles
    /\ bpc = <<>>
    /\ bop = [kind |-> "none"]
    /\ bres = [how |-> "none"]
    /\ bcalls = <<>>
    /\ saved = [u \in ArtifactUris |-> <<>>]
    /\ bOps = 0

(***************************************************************************)
(* TFRecordsDatasource.  A path is the sequence of its components, an      *)
(* absolute one starting with "/"; the file system is the set of its       *)
(* files, a directory being there when a file is below it.                 *)
(***************************************************************************)
\* process() calls in one run
MaxProcess == 1

IsAbsolute(p) == p # <<>> /\ p[1] = "/"

IsPrefix(p, q) == Len(q) >= Len(p) /\ SubSeq(q, 1, Len(p)) = p

RECURSIVE Normalise(_, _)
\* the components of an absolute path with "." dropped and ".." applied
Normalise(done, rest) ==
    IF rest = <<>> THEN done
    ELSE LET c == Head(rest)
         IN  IF c = "." THEN Normalise(done, Tail(rest))
             ELSE IF c = ".."
                  THEN Normalise(IF Len(done) > 1
                                 THEN SubSeq(done, 1, Len(done) - 1)
                                 ELSE done,
                                 Tail(rest))
                  ELSE Normalise(Append(done, c), Tail(rest))

\* Path(path).resolve(): absolute, from the working directory when relative
Resolve(dir, path) ==
    IF IsAbsolute(path) THEN Normalise(<<"/">>, Tail(path))
    ELSE Normalise(dir, path)

\* path_utils.copy_dir(source_dir, destination_dir): every file below
\* source_dir is copied to the same relative path below destination_dir
copy_dir(files, source_dir, destination_dir) ==
    LET below == {f \in files : IsPrefix(source_dir, f.path)
                                /\ Len(f.path) > Len(source_dir)}
        copies == {[path |-> destination_dir
                              \o SubSeq(f.path, Len(source_dir) + 1, Len(f.path)),
                    data |-> f.data] : f \in below}
    IN  {f \in files : f.path \notin {c.path : c \in copies}} \cup copies

\* variant: the arguments of copy_dir in the wrong order
process_swapped(self_path, output_path) ==
    LET p == Resolve(cwd, self_path)
    IN  copy_dir(fs, output_path, p)

\* p = Path(self.path).resolve(); path_utils.copy_dir(str(p), output_path)
process(self_path, output_path) ==
    LET p == Resolve(cwd, self_path)
    IN  copy_dir(fs, p, output_path)

File(path, data) == [path |-> path, data |-> data]

FileSystems ==
    { { File(<<"/", "data", "train", "a.tfrecord">>, "A"),
        File(<<"/", "data", "train", "sub", "b.tfrecord">>, "B"),
        File(<<"/", "data", "other", "c.tfrecord">>, "C"),
        File(<<"/", "out", "keep.txt">>, "K") },
      { File(<<"/", "data", "train", "a.tfrecord">>, "A2"),
        File(<<"/", "work", "train", "w.tfrecord">>, "W") },
      { File(<<"/", "data", "other", "c.tfrecord">>, "C") } }

WorkingDirs == {<<"/">>, <<"/", "data">>, <<"/", "work">>}

SourcePaths ==
    { <<"/", "data", "train">>,
      <<"train">>,
      <<"data", "train">>,
      <<"..", "data", "train">>,
      <<"/", "data", "other", "..", ".", "train">> }

OutputPaths == {<<"/", "out">>, <<"/", "new", "dir">>}

None == <<"None">>

Schemas == {None, <<"label", "int">>}

NoDatasource == [path |-> <<>>, schema |-> None, made |-> FALSE]

\* TFRecordsDatasource(name, path, schema)
NewDatasource ==
    /\ ~ds.made
    /\ \E path \in SourcePaths, schema \in Schemas :
        ds' = [path |-> path, schema |-> schema, made |-> TRUE]
    /\ UNCHANGED <<fs, cwd, processed>>
    /\ UNCHANGED <<dvars, bvars>>

\* datasource.process(output_path)
Process ==
    /\ ds.made
    /\ Len(processed) < MaxProcess
    /\ \E output_path \in OutputPaths :
        /\ fs' = process(ds.path, output_path)
        /\ processed' = Append(processed,
                               [output_path |-> output_path, before |-> fs])
    /\ UNCHANGED <<cwd, ds>>
    /\ UNCHANGED <<dvars, bvars>>

DatasourceRest ==
    /\ fs = {}
    /\ cwd = <<"/">>
    /\ ds = NoDatasource
    /\ processed = <<>>

DeployerInit ==
    /\ pc = [t \in Threads |-> <<>>]
    /\ op = [t \in Threads |-> NoOp]
    /\ result = [t \in Threads |-> "none"]
    /\ trace = [t \in Threads |-> <<>>]
    /\ seen = [t \in Threads |-> <<>>]
    /\ artifacts = <<>>
    /\ remote = <<>>
    /\ nOps = 0

(***************************************************************************)
(* Spec: one caller runs the lifecycle operations one at a time, on any    *)
(* model, config and timeout, starting from any environment.               *)
(***************************************************************************)
Init ==
    /\ DeployerInit
    /\ env \in [EnvVars -> {Absent, Stale}]
    /\ cfgName \in [Configs -> EndpointNames]
    /\ store = [q \in StorePaths |-> NoFile]
    /\ BoosterRest
    /\ DatasourceRest

SeqDeploy ==
    /\ nOps < MaxOps
    /\ CallDeploy(1, UUIDs, Configs, Timeouts)

SeqStop ==
    /\ nOps < MaxOps
    /\ CallStop(1, Timeouts)

SeqStart ==
    /\ nOps < MaxOps
    /\ CallStart(1, Timeouts)

SeqDelete ==
    /\ nOps < MaxOps
    /\ CallDelete(1, Timeouts)

Next ==
    \/ SeqDeploy
    \/ SeqStop
    \/ SeqStart
    \/ SeqDelete
    \/ Step(1)

Spec == Init /\ [][Next]_vars

(***************************************************************************)
(* SpecConc: two callers in one process, each with its own deployer, model *)
(* and config; their operations interleave step by step.                   *)
(***************************************************************************)
InitConc ==
    /\ DeployerInit
    /\ env = NoEnv
    /\ cfgName = [c \in Configs |-> <<"a">>]
    /\ store = [q \in StorePaths |-> NoFile]
    /\ BoosterRest
    /\ DatasourceRest

ConcDeploy(t) ==
    /\ nOps < MaxConcOps
    /\ CallDeploy(t, {IF t = 1 THEN UuidA ELSE UuidC},
                  {IF t = 1 THEN "cfg1" ELSE "cfg2"}, {300})

ConcStop(t) ==
    /\ nOps < MaxConcOps
    /\ CallStop(t, {300})

ConcStart(t) ==
    /\ nOps < MaxConcOps
    /\ CallStart(t, {300})

ConcDelete(t) ==
    /\ nOps < MaxConcOps
    /\ CallDelete(t, {300})

NextConc ==
    \E t \in Threads :
        \/ ConcDeploy(t)
        \/ ConcStop(t)
        \/ ConcStart(t)
        \/ ConcDelete(t)
        \/ Step(t)

SpecConc == InitConc /\ [][NextConc]_vars

(***************************************************************************)
(* SpecBooster: loads and saves of the materializer, one at a time, on an  *)
(* artifact store that may hold files already.                             *)
(***************************************************************************)
InitBooster ==
    /\ store \in
          {st \in [StorePaths ->
                      {NoFile, Corrupt, SaveModelJson(<<1>>), SaveModelJson(<<9>>)}] :
              \A u \in ArtifactUris :
                  /\ st[PathJoin(u, OtherFilename)] = SaveModelJson(<<9>>)
                  /\ st[PathJoin(u, DEFAULT_FILENAME)] # SaveModelJson(<<9>>)}
    /\ BoosterRest
    /\ DeployerInit
    /\ env = NoEnv
    /\ cfgName = [c \in Configs |-> <<"a">>]
    /\ DatasourceRest

NextBooster ==
    \/ CallLoad
    \/ CallSave
    \/ MkDTemp
    \/ CopyFromStore
    \/ LoadModel
    \/ RmTree
    \/ NamedTemporaryFile
    \/ SaveModel
    \/ CopyToStore
    \/ CloseTempFile
    \/ BReturn
    \/ BReraise

SpecBooster == InitBooster /\ [][NextBooster]_vars

(***************************************************************************)
(* SpecDatasource: a datasource is made on some path and schema, in some   *)
(* working directory and file system, and processed.                       *)
(***************************************************************************)
InitDatasource ==
    /\ fs \in FileSystems
    /\ cwd \in WorkingDirs
    /\ ds = NoDatasource
    /\ processed = <<>>
    /\ store = [q \in StorePaths |-> NoFile]
    /\ BoosterRest
    /\ DeployerInit
    /\ env = NoEnv
    /\ cfgName = [c \in Configs |-> <<"a">>]

NextDatasource ==
    \/ NewDatasource
    \/ Process

SpecDatasource == InitDatasource /\ [][NextDatasource]_vars

(***************************************************************************)
(* Helpers for stating the properties.                                     *)
(***************************************************************************)
RECURSIVE Repeat(_, _)
\* k copies of v, one after the other
Repeat(v, k) == IF k = 0 THEN <<>> ELSE v \o Repeat(v, k - 1)

RECURSIVE ApplyTimes(_, _, _)
\* modify_endpoint_name applied k times with the same version
ApplyTimes(k, name, v) ==
    IF k = 0 THEN name
    ELSE modify_endpoint_name(ApplyTimes(k - 1, name, v), v)

RECURSIVE LeadingTags(_)
\* how many "zenml-" tags a name starts with
LeadingTags(s) ==
    IF Len(s) >= 6 /\ s[1] = "z" /\ s[2] = "e" /\ s[3] = "n" /\ s[4] = "m"
       /\ s[5] = "l" /\ s[6] = "-"
    THEN 1 + LeadingTags(SubSeq(s, 7, Len(s)))
    ELSE 0

\* the name with the tag put in front unless it is there already
Tagged(name) ==
    IF LeadingTags(name) = 0 THEN <<"z", "e", "n", "m", "l", "-">> \o name
    ELSE name

\* the first eight hexadecimal digits of a UUID
FirstEightHex(u) == [i \in 1..8 |-> HexDigits[u[i] + 1]]

\* the last n characters of s
LastChars(s, n) == SubSeq(s, Len(s) - n + 1, Len(s))

Versions == {FirstEightHex(u) : u \in UUIDs}

\* the saved artifacts of the deploys that used config object c, in order
ArtifactsOf(c) == SelectSeq(artifacts, LAMBDA a : a.cfg = c)

RECURSIVE VersionsOf(_)
\* the versions of a sequence of artifacts, one after the other
VersionsOf(arts) ==
    IF arts = <<>> THEN <<>> ELSE Head(arts).version \o VersionsOf(Tail(arts))

AllIdle == \A t \in Threads : Idle(t)

AtRemoteCall(t) == AtStep(t, "start") \/ AtStep(t, "stop")

(***************************************************************************)
(* C1. Run one at a time, every lifecycle operation has HF_TOKEN and       *)
(* HF_NAMESPACE set to its deployer's token and namespace when its remote  *)
(* start/stop call executes, and both are absent from the environment once *)
(* the operation has returned, whatever they held before it.               *)
(***************************************************************************)
C1_CredentialsScoped ==
    \A t \in Threads :
        /\ AtRemoteCall(t) => env = Credentials(t)
        /\ \A i \in 1..Len(seen[t]) : seen[t][i] = Credentials(t)
        /\ (Idle(t) /\ result[t] = "returned") =>
              /\ env["HF_TOKEN"] = Absent
              /\ env["HF_NAMESPACE"] = Absent
              /\ Len(seen[t]) = 1

C1_Witness ==
    /\ Idle(1)
    /\ result[1] = "returned"
    /\ op[1].kind = "delete"
    /\ seen[1] = <<Credentials(1)>>
    /\ env = NoEnv

(***************************************************************************)
(* C2. When the remote start or stop of a lifecycle operation raises, the  *)
(* error reaches the caller and HF_TOKEN and HF_NAMESPACE are absent from  *)
(* the environment afterwards.                                             *)
(***************************************************************************)
C2_NoLeakAfterFailure ==
    \A t \in Threads :
        (Idle(t) /\ result[t] = "raised") =>
            /\ env["HF_TOKEN"] = Absent
            /\ env["HF_NAMESPACE"] = Absent

(***************************************************************************)
(* C3. A deploy makes its calls in this order: the config's endpoint name  *)
(* is rewritten, the service is saved as the artifact at version = first 8 *)
(* characters of str(id) carrying the rewritten name, its metadata is      *)
(* logged, and then the remote endpoint is started, once, with the         *)
(* caller's timeout; nothing is saved after the start.                     *)
(***************************************************************************)
DeployOrder == <<"rename", "save_artifact", "log_metadata", "start">>

C3_DeployOrder ==
    \A t \in Threads :
        op[t].kind = "deploy" =>
            LET tr == trace[t]
                v == FirstEightHex(op[t].id)
            IN  /\ Len(tr) <= 4
                /\ \A i \in 1..Len(tr) : tr[i].ev = DeployOrder[i]
                /\ Len(tr) >= 2 =>
                      /\ tr[2].version = v
                      /\ tr[2].endpoint_name = Tagged(op[t].orig) \o v
                      /\ op[t].svc = Len(artifacts)
                      /\ artifacts[op[t].svc].version = v
                      /\ artifacts[op[t].svc].endpoint_name =
                            Tagged(op[t].orig) \o v
                /\ Len(tr) >= 3 => tr[3].version = v
                /\ Len(tr) = 4 => tr[4].timeout = op[t].timeout
                /\ result[t] = "returned" => (Len(tr) = 4 /\ tr[4].ok)
                /\ (Len(tr) < 4 /\ op[t].svc # 0) =>
                      remote[op[t].svc] = "created"

C3_Witness ==
    /\ op[1].kind = "deploy"
    /\ op[1].timeout = 0
    /\ result[1] = "returned"
    /\ Len(trace[1]) = 4
    /\ remote[op[1].svc] = "running"

(***************************************************************************)
(* C4. Every deploy uses as artifact version the first 8 characters of the *)
(* UUID's string form, and names the endpoint "zenml-" + name + version    *)
(* when the name does not start with "zenml-", name + version when it      *)
(* does; the name's suffix is the artifact version.  UUID 123e4567-e89b-.. *)
(* gives version "123e4567".                                               *)
(***************************************************************************)
C4_VersionAndName ==
    \A i \in 1..Len(artifacts) :
        LET a == artifacts[i]
            v == FirstEightHex(a.uuid)
        IN  /\ a.version = v
            /\ a.version = SubSeq(UuidStr(a.uuid), 1, 8)
            /\ a.endpoint_name =
                  IF LeadingTags(a.orig) = 0
                  THEN <<"z", "e", "n", "m", "l", "-">> \o a.orig \o v
                  ELSE a.orig \o v
            /\ LastChars(a.endpoint_name, 8) = a.version
            /\ a.uuid = UuidA =>
                  a.version = <<"1", "2", "3", "e", "4", "5", "6", "7">>

C4_Witness ==
    /\ Len(artifacts) = 2
    /\ artifacts[1].uuid = UuidA
    /\ artifacts[1].orig = <<"a">>
    /\ artifacts[1].endpoint_name =
          <<"z", "e", "n", "m", "l", "-", "a",
            "1", "2", "3", "e", "4", "5", "6", "7">>
    /\ artifacts[2].uuid = UuidC
    /\ artifacts[2].orig = <<"z", "e", "n", "m", "l", "-", "a">>
    /\ artifacts[2].endpoint_name =
          <<"z", "e", "n", "m", "l", "-", "a",
            "0", "0", "c", "0", "f", "f", "e", "e">>

(***************************************************************************)
(* C5. modify_endpoint_name is idempotent in the prefix and not in the     *)
(* suffix.  Applied k >= 1 times to a name with version v it gives the     *)
(* name, with one "zenml-" tag put in front by the first application when  *)
(* the name did not start with it and none put in front when it did,       *)
(* followed by k copies of v.  So the deploys that share a config object   *)
(* leave in config.endpoint_name at most one tag added and one suffix per  *)
(* deploy: two deploys, the suffix twice.                                  *)
(***************************************************************************)
TagsAdded(before, after) == LeadingTags(after) - LeadingTags(before)

C5_PrefixOnceSuffixEach ==
    /\ \A name \in EndpointNames, v \in Versions, k \in 1..MaxApply :
          LET r == ApplyTimes(k, name, v)
          IN  /\ r = Tagged(name) \o Repeat(v, k)
              /\ TagsAdded(name, r) = IF LeadingTags(name) = 0 THEN 1 ELSE 0
              /\ Len(r) = Len(Tagged(name)) + k * 8
    /\ AllIdle =>
          \A c \in Configs :
              LET arts == ArtifactsOf(c)
              IN  arts # <<>> =>
                    /\ cfgName[c] = Tagged(arts[1].orig) \o VersionsOf(arts)
                    /\ TagsAdded(arts[1].orig, cfgName[c]) \in {0, 1}
                    /\ TagsAdded(arts[1].orig, cfgName[c]) = 1
                          <=> LeadingTags(arts[1].orig) = 0

\* two deploys with the same config object, whose name had no tag
C5_Witness ==
    /\ AllIdle
    /\ Len(ArtifactsOf("cfg1")) = 2
    /\ artifacts[1].orig = <<"z", "e", "n", "m", "l">>
    /\ cfgName["cfg1"] =
          <<"z", "e", "n", "m", "l", "-", "z", "e", "n", "m", "l",
            "1", "2", "3", "e", "4", "5", "6", "7",
            "0", "0", "c", "0", "f", "f", "e", "e">>

\* C5 as first stated: applied k times to the name of any deploy, the
\* function has added exactly one tag and appended k copies of the version;
\* the deploys that share a config object leave its name with a single
\* prefix and one suffix per deploy
C5_ExactlyOneTagAdded ==
    /\ \A i \in 1..Len(artifacts), k \in 1..MaxApply :
          LET a == artifacts[i]
              r == ApplyTimes(k, a.orig, a.version)
          IN  /\ TagsAdded(a.orig, r) = 1
              /\ LastChars(r, 8 * k) = Repeat(a.version, k)
    /\ AllIdle =>
          \A c \in Configs :
              LET arts == ArtifactsOf(c)
              IN  arts # <<>> =>
                    /\ LeadingTags(cfgName[c]) = 1
                    /\ LastChars(cfgName[c], 8 * Len(arts)) = VersionsOf(arts)

(***************************************************************************)
(* C6. After deploys of distinct model UUIDs no two saved service handles  *)
(* have the same artifact version, and no two deployed from the same       *)
(* original endpoint name have the same final endpoint name.               *)
(***************************************************************************)
C6_VersionsUnique ==
    \A i, j \in 1..Len(artifacts) :
        (i # j /\ artifacts[i].uuid # artifacts[j].uuid) =>
            /\ artifacts[i].version # artifacts[j].version
            /\ artifacts[i].orig = artifacts[j].orig =>
                  artifacts[i].endpoint_name # artifacts[j].endpoint_name

(***************************************************************************)
(* C7. The credentials are not safe for concurrent use.  When operations   *)
(* of two callers interleave, a remote call can find HF_TOKEN and          *)
(* HF_NAMESPACE absent or holding the other deployer's values; what it     *)
(* finds in each is its own deployer's value, the other deployer's or      *)
(* nothing, and it finds anything but its own only when the other caller   *)
(* has begun an operation.                                                 *)
(***************************************************************************)
Other(t) == CHOOSE u \in Threads : u # t

FoundByRemoteCall(t) ==
    {seen[t][i] : i \in 1..Len(seen[t])}
    \cup (IF AtRemoteCall(t) THEN {env} ELSE {})

C7_RaceOnlyWithOtherCaller ==
    \A t \in Threads :
        \A e \in FoundByRemoteCall(t) :
            /\ \A v \in EnvVars :
                  e[v] \in {Credentials(t)[v], Credentials(Other(t))[v], Absent}
            /\ e # Credentials(t) => op[Other(t)].kind # "none"

\* two deploys of different endpoints: caller 1's start found caller 2's
\* credentials, and caller 2's start then found none, caller 1 having
\* cleared them
C7_Witness ==
    /\ op[1].kind = "deploy"
    /\ op[2].kind = "deploy"
    /\ op[1].svc # 0
    /\ op[2].svc # 0
    /\ artifacts[op[1].svc].endpoint_name # artifacts[op[2].svc].endpoint_name
    /\ seen[1] = <<Credentials(2)>>
    /\ seen[2] = <<NoEnv>>
    /\ trace[1][4].ok
    /\ trace[2][4].ok

(***************************************************************************)
(* C8. Round trip of the booster materializer: a load that follows a save  *)
(* of model m on the same URI returns a model equal to m, with the same    *)
(* serialized content.  save writes the file <uri>/model.json and no       *)
(* other, load reads that file, and load leaves the artifact store as it   *)
(* was.                                                                    *)
(***************************************************************************)
ModelJsonOf(uri) == uri \o <<"model.json">>

C8_RoundTrip ==
    /\ (bop.kind = "load" /\ bres.how = "returned") =>
          /\ WellFormedJson(store[ModelJsonOf(bop.uri)])
          /\ bres.value = <<LoadModelJson(store[ModelJsonOf(bop.uri)])>>
          /\ saved[bop.uri] # <<>> =>
                /\ bres.value = saved[bop.uri]
                /\ SaveModelJson(bres.value[1]) = store[ModelJsonOf(bop.uri)]
    /\ bop.kind = "load" => store = bop.store0
    /\ bop.kind = "save" =>
          \A q \in StorePaths :
              q # ModelJsonOf(bop.uri) => store[q] = bop.store0[q]
    /\ (bop.kind = "save" /\ bres.how = "returned") =>
          /\ store[ModelJsonOf(bop.uri)] = SaveModelJson(bop.booster)
          /\ saved[bop.uri] = <<bop.booster>>
    /\ \A u \in ArtifactUris :
          saved[u] # <<>> => store[ModelJsonOf(u)] = SaveModelJson(saved[u][1])

C8_Witness ==
    /\ bop.kind = "load"
    /\ bop.uri = <<"store", "art1">>
    /\ bres = [how |-> "returned", value |-> <<(<<2, 1>>)>>]
    /\ saved[<<"store", "art1">>] = <<(<<2, 1>>)>>
    /\ store[<<"store", "art1", "model.json">>] = <<"[", "2", ",", "1", "]">>

(***************************************************************************)
(* C9. The temporary resources of the booster materializer are released on *)
(* every way out: once load or save has returned or failed (the copy from  *)
(* or into the artifact store failed, or the native loader or saver        *)
(* failed), no temporary directory or file of it exists; the error of the  *)
(* failing call is the one the caller gets, and no call is made again.     *)
(***************************************************************************)
C9_TempReleased ==
    /\ BIdle => DOMAIN local = {}
    /\ \A i, j \in 1..Len(bcalls) :
          i # j => bcalls[i].call # bcalls[j].call
    /\ (BIdle /\ bres.how = "raised") =>
          /\ bcalls # <<>>
          /\ bcalls[Len(bcalls)].outcome = "raised"
          /\ \A i \in 1..(Len(bcalls) - 1) : bcalls[i].outcome = "ok"
          /\ bres.value = bop.error
          /\ bres.value \in {"FileNotFoundError", "OSError", "XGBoostError"}
    /\ (BIdle /\ bres.how = "returned") =>
          /\ Len(bcalls) = 2
          /\ \A i \in 1..Len(bcalls) : bcalls[i].outcome = "ok"

\* the native loader failed on the file copied into the temporary directory
C9_Witness ==
    /\ BIdle
    /\ bop.kind = "load"
    /\ bres = [how |-> "raised", value |-> "XGBoostError"]
    /\ bcalls = <<[call |-> "fileio.copy", outcome |-> "ok"],
                  [call |-> "load_model", outcome |-> "raised"]>>
    /\ DOMAIN local = {}

(***************************************************************************)
(* C10. process(output_path) copies every file of the configured source    *)
(* directory, resolved to an absolute path, into output_path at the same   *)
(* relative path with the same content; it leaves out and changes no file, *)
(* whatever the schema is, and leaves the source directory (and every file *)
(* outside output_path) as it was.                                         *)
(***************************************************************************)
RelativeTo(dir, path) == SubSeq(path, Len(dir) + 1, Len(path))

C10_CopiesEverything ==
    processed # <<>> =>
        LET call == processed[Len(processed)]
            before == call.before
            out == call.output_path
            src == Resolve(cwd, ds.path)
            sources == {f \in before : IsPrefix(src, f.path) /\ f.path # src}
            CopyOf(f) == File(out \o RelativeTo(src, f.path), f.data)
        IN  /\ \A f \in sources : CopyOf(f) \in fs
            /\ \A g \in fs :
                  g \in before \/ \E f \in sources : g = CopyOf(f)
            /\ \A f \in before : ~IsPrefix(out, f.path) => f \in fs
            /\ \A f \in before :
                  (\A s \in sources : CopyOf(s).path # f.path) => f \in fs
            /\ IsAbsolute(src)

\* from /work, the source "../data/train" with a schema, copied to /new/dir
C10_Witness ==
    /\ processed # <<>>
    /\ cwd = <<"/", "work">>
    /\ ds.path = <<"..", "data", "train">>
    /\ ds.schema = <<"label", "int">>
    /\ fs = { File(<<"/", "data", "train", "a.tfrecord">>, "A"),
              File(<<"/", "data", "train", "sub", "b.tfrecord">>, "B"),
              File(<<"/", "data", "other", "c.tfrecord">>, "C"),
              File(<<"/", "out", "keep.txt">>, "K"),
              File(<<"/", "new", "dir", "a.tfrecord">>, "A"),
              File(<<"/", "new", "dir", "sub", "b.tfrecord">>, "B") }

=============================================================================
